---- MODULE Spec2Model ----
(***************************************************************************)
(* book2anki: pdf2words.py (OCR text cache, word extraction, interactive   *)
(* classification, translation) and create_anki.py (flashcard exporter).   *)
(*                                                                         *)
(* Three specifications share this module:                                 *)
(*   Spec       classification / translation sessions over several books   *)
(*   SpecOCR    extract_text (cache + OCR page filter), main's startup and *)
(*              the exporter's startup                                     *)
(*   SpecWords  extract_unique_words over bounded texts and dictionaries   *)
(***************************************************************************)
EXTENDS Integers, Sequences, FiniteSets, TLC

(***************************************************************************)
(* Bounds                                                                  *)
(***************************************************************************)
\* words are numbered in the order in which their spellings sort
MaxWord == 2
\* longest word mapping handed to classify_words in one session
MaxList == 2
\* runs of main() in one behaviour
MaxSessions == 2

\* pages of the scanned book
MaxPages == 2
\* entries of PAGES_RANGES
MaxRanges == 2
\* rows of the CSV file handed to the exporter
MaxRows == 2
\* tokens of the text handed to extract_unique_words
MaxTokens == 3

Words == 1..MaxWord
\* books (values of PDF_FILE without extension) processed in one directory
Docs == {"bookA", "bookB"}
\* the sentence of book d in which word w first occurs
SentenceOf(d, w) == <<d, w>>
\* results the translation service can return for a word
Translations == {"tr"}

(***************************************************************************)
(* Generic helpers                                                         *)
(***************************************************************************)
Range(s) == {s[i] : i \in 1..Len(s)}

Min(S) == CHOOSE x \in S : \A y \in S : x <= y

\* sorted(iterable) for a set of words
RECURSIVE sorted(_)
sorted(S) == IF S = {} THEN <<>> ELSE <<Min(S)>> \o sorted(S \ {Min(S)})

\* Python dicts keep insertion order and have distinct keys: a mapping
\* word -> details is a sequence of records with pairwise distinct .word
DistinctWords(s) == \A i, j \in 1..Len(s) : i # j => s[i].word # s[j].word

Keys(dict) == {dict[i].word : i \in 1..Len(dict)}

Lookup(dict, w) == dict[CHOOSE i \in 1..Len(dict) : dict[i].word = w]

\* dict[entry.word] = entry: an existing key keeps its position
DictSet(dict, entry) ==
  IF entry.word \in Keys(dict)
  THEN [i \in 1..Len(dict) |-> IF dict[i].word = entry.word THEN entry ELSE dict[i]]
  ELSE Append(dict, entry)

(***************************************************************************)
(* File system of the working directory                                    *)
(***************************************************************************)
\* a file name, as os.path.splitext splits it
FileName(base, ext) == [base |-> base, ext |-> ext]
KNOWN_WORDS_FILE == FileName(".KNOWN_WORDS", "txt")
UNKNOWN_WORDS_FILE(d) == FileName(d, "csv")
SidecarName(file_path) == FileName(file_path.base, "words")

Missing == [exists |-> FALSE, content |-> <<>>]
File(content) == [exists |-> TRUE, content |-> content]

SessionFiles ==
  {KNOWN_WORDS_FILE} \cup {FileName(d, e) : d \in Docs, e \in {"csv", "words"}}

VARIABLES
  files,            \* file name -> Missing or File(lines / rows)
  pc,               \* position of main(): "idle", "prompt", "review", "translate"
  doc,              \* the book of the running session
  wordlist,         \* mapping handed to classify_words: <<[word, sentence]>>
  known_words,      \* classify_words: set
  unknown_words,    \* classify_words / translate_words: ordered dict as <<[word, translation, sentence]>>
  otherbook_words,  \* classify_words: set
  newlist,          \* classify_words: filtered mapping
  cnt,              \* classify_words: ordinal of the word on screen
  tpos,             \* translate_words: position in unknown_words.items()
  hist,             \* history of the session (not program state)
  nruns             \* number of runs of main() started (not program state)

sessVars == <<files, pc, doc, wordlist, known_words, unknown_words,
              otherbook_words, newlist, cnt, tpos, hist, nruns>>

VARIABLES
  PAGES_RANGES,     \* the page filter: <<[lo, hi]>>, each a Python range(lo, hi)
  pdf,              \* PDF_FILE: [exists, pages]
  cache,            \* the text cache file of PDF_FILE: Missing or File(text)
  opc,              \* position of the running program, "idle" between runs
  page_cnt,         \* extract_text_with_pytesseract: cnt
  text,             \* extract_text_with_pytesseract: text
  run,              \* what the last run did (history, and its exit status)
  csv_arg,          \* create_anki.py: the file named by sys.argv[1]
  package           \* create_anki.py: the .apkg file written

ocrVars == <<PAGES_RANGES, pdf, cache, opc, page_cnt, text, run, csv_arg, package>>

VARIABLES
  book_text,        \* extract_unique_words: its argument, a string
  english_words,    \* the reference dictionary
  sentences,        \* extract_unique_words: re.split(...) of the text
  tokens,           \* the (cleaned sentence, token) pairs the two loops visit, in order
  ti,               \* index of the pair being processed, 0 before the call
  unique_words,     \* the mapping built so far
  firsts            \* history: lowercase word -> sentence of its first qualifying token

wordVars == <<book_text, english_words, sentences, tokens, ti, unique_words, firsts>>

vars == <<sessVars, ocrVars, wordVars>>

(***************************************************************************)
(* Classification store: load and save                                     *)
(***************************************************************************)
load_known_words(fs, file_path) ==
  IF fs[file_path].exists THEN Range(fs[file_path].content) ELSE {}

RECURSIVE ReadRows(_, _)
ReadRows(rows, acc) ==
  IF rows = <<>> THEN acc
  ELSE LET row == Head(rows)
       IN ReadRows(Tail(rows),
                   IF Len(row) >= 3
                   THEN DictSet(acc, [word |-> row[1], translation |-> row[2],
                                      sentence |-> row[3]])
                   ELSE acc)

load_unknown_words(fs, file_path) ==
  IF fs[file_path].exists THEN ReadRows(fs[file_path].content, <<>>) ELSE <<>>

\* Path(".").glob("*.words")
GlobWords(fs) == {f \in DOMAIN fs : f.ext = "words" /\ fs[f].exists}

\* faulty variant: the name test inverted, so that no sidecar is read
load_otherbook_words_inverted(fs, file_path) ==
  UNION {Range(fs[other_file].content) :
           other_file \in {f \in GlobWords(fs) : f = file_path}}

load_otherbook_words(fs, file_path) ==
  UNION {Range(fs[other_file].content) :
           other_file \in {f \in GlobWords(fs) : f # file_path}}

save_known_words(fs, file_path, known) ==
  [fs EXCEPT ![file_path] = File(sorted(known))]

CsvRows(unknown) ==
  [i \in 1..Len(unknown) |->
     <<unknown[i].word, unknown[i].translation, unknown[i].sentence>>]

save_unknown_words(fs, file_path, unknown) ==
  [fs EXCEPT ![file_path] = File(CsvRows(unknown)),
             ![SidecarName(file_path)] = File(sorted(Keys(unknown)))]

\* the finally clause of classify_words
SaveProgress(fs, d, known, unknown) ==
  save_unknown_words(save_known_words(fs, KNOWN_WORDS_FILE, known),
                     UNKNOWN_WORDS_FILE(d), unknown)

(***************************************************************************)
(* classify_words                                                          *)
(***************************************************************************)
\* faulty variant: the known words are not filtered out
ProcessedExceptKnown(word, known, unknown, otherbook) ==
  \/ word \in Keys(unknown)
  \/ word \in otherbook

\* "remove already proccessed words"
Processed(word, known, unknown, otherbook) ==
  \/ word \in known
  \/ word \in Keys(unknown)
  \/ word \in otherbook

FilterNew(wl, known, unknown, otherbook) ==
  SelectSeq(wl, LAMBDA e : ~Processed(e.word, known, unknown, otherbook))

\* the mappings extract_unique_words can hand over for book d
WordLists(d) ==
  {[i \in 1..Len(ws) |-> [word |-> ws[i], sentence |-> SentenceOf(d, ws[i])]] :
     ws \in {s \in UNION {[1..k -> Words] : k \in 0..MaxList} :
               \A i, j \in 1..Len(s) : i # j => s[i] # s[j]}}

NoHist ==
  [loaded_known |-> {}, loaded_unknown |-> <<>>, sidecars |-> {},
   shown |-> <<>>, answers |-> <<>>, last_key |-> "none", exit |-> "none",
   t_start |-> <<>>, calls |-> <<>>, saves |-> 0]

SessInit ==
  /\ files = [f \in SessionFiles |-> Missing]
  /\ pc = "idle"
  /\ doc = "none"
  /\ wordlist = <<>>
  /\ known_words = {}
  /\ unknown_words = <<>>
  /\ otherbook_words = {}
  /\ newlist = <<>>
  /\ cnt = 0
  /\ tpos = 0
  /\ hist = NoHist
  /\ nruns = 0

\* main() reaches classify_words for book d with the extracted mapping wl:
\* the three loads, up to input("Press Enter to continue")
StartSession(d, wl) ==
  /\ pc = "idle"
  /\ nruns < MaxSessions
  /\ nruns' = nruns + 1
  /\ pc' = "prompt"
  /\ doc' = d
  /\ wordlist' = wl
  /\ known_words' = load_known_words(files, KNOWN_WORDS_FILE)
  /\ unknown_words' = load_unknown_words(files, UNKNOWN_WORDS_FILE(d))
  /\ otherbook_words' = load_otherbook_words(files, UNKNOWN_WORDS_FILE(d))
  /\ newlist' = <<>>
  /\ cnt' = 0
  /\ tpos' = 0
  /\ hist' = [NoHist EXCEPT
                !.loaded_known = known_words',
                !.loaded_unknown = unknown_words',
                !.sidecars = {[name |-> f, words |-> Range(files[f].content)] :
                                f \in GlobWords(files)}]
  /\ UNCHANGED files
  /\ UNCHANGED <<ocrVars, wordVars>>

\* KeyboardInterrupt at the prompt: outside the try, nothing is saved
PromptInterrupt ==
  /\ pc = "prompt"
  /\ pc' = "exit"
  /\ hist' = [hist EXCEPT !.exit = "crash"]
  /\ UNCHANGED <<files, doc, wordlist, known_words, unknown_words,
                 otherbook_words, newlist, cnt, tpos, nruns>>
  /\ UNCHANGED <<ocrVars, wordVars>>

\* Enter pressed: filter the mapping and show the first word
PressEnter ==
  /\ pc = "prompt"
  /\ LET nl == FilterNew(wordlist, known_words, unknown_words, otherbook_words)
     IN /\ newlist' = nl
        /\ IF nl = <<>>
           THEN /\ files' = SaveProgress(files, doc, known_words, unknown_words)
                /\ pc' = "translate"
                /\ tpos' = 1
                /\ cnt' = 0
                /\ hist' = [hist EXCEPT !.exit = "complete",
                                        !.t_start = unknown_words]
           ELSE /\ pc' = "review"
                /\ cnt' = 1
                /\ tpos' = 0
                /\ hist' = [hist EXCEPT !.shown = <<nl[1].word>>]
                /\ UNCHANGED files
  /\ UNCHANGED <<doc, wordlist, known_words, unknown_words, otherbook_words, nruns>>
  /\ UNCHANGED <<ocrVars, wordVars>>

\* after a decision on newlist[cnt]: next word, or the finally clause
AfterDecision(known, unknown, key) ==
  IF cnt < Len(newlist)
  THEN /\ cnt' = cnt + 1
       /\ pc' = "review"
       /\ tpos' = 0
       /\ hist' = [hist EXCEPT !.shown = Append(@, newlist[cnt + 1].word),
                               !.answers = Append(@, key),
                               !.last_key = key]
       /\ UNCHANGED files
  ELSE /\ cnt' = cnt
       /\ files' = SaveProgress(files, doc, known, unknown)
       /\ pc' = "translate"
       /\ tpos' = 1
       /\ hist' = [hist EXCEPT !.answers = Append(@, key),
                               !.last_key = key,
                               !.exit = "complete",
                               !.t_start = unknown]

KeyLeft ==
  /\ pc = "review"
  /\ known_words' = known_words \cup {newlist[cnt].word}
  /\ unknown_words' = unknown_words
  /\ AfterDecision(known_words', unknown_words', "LEFT")
  /\ UNCHANGED <<doc, wordlist, otherbook_words, newlist, nruns>>
  /\ UNCHANGED <<ocrVars, wordVars>>

\* faulty variant: RIGHT falls through into the LEFT branch as well
KeyRightFallsThrough ==
  /\ pc = "review"
  /\ unknown_words' = DictSet(unknown_words,
                              [word |-> newlist[cnt].word, translation |-> "",
                               sentence |-> newlist[cnt].sentence])
  /\ known_words' = known_words \cup {newlist[cnt].word}
  /\ AfterDecision(known_words', unknown_words', "RIGHT")
  /\ UNCHANGED <<doc, wordlist, otherbook_words, newlist, nruns>>
  /\ UNCHANGED <<ocrVars, wordVars>>

KeyRight ==
  /\ pc = "review"
  /\ unknown_words' = DictSet(unknown_words,
                              [word |-> newlist[cnt].word, translation |-> "",
                               sentence |-> newlist[cnt].sentence])
  /\ known_words' = known_words
  /\ AfterDecision(known_words', unknown_words', "RIGHT")
  /\ UNCHANGED <<doc, wordlist, otherbook_words, newlist, nruns>>
  /\ UNCHANGED <<ocrVars, wordVars>>

\* any other key: the inner while loop asks again
KeyOther ==
  /\ pc = "review"
  /\ hist' = [hist EXCEPT !.last_key = "OTHER"]
  /\ UNCHANGED <<files, pc, doc, wordlist, known_words, unknown_words,
                 otherbook_words, newlist, cnt, tpos, nruns>>
  /\ UNCHANGED <<ocrVars, wordVars>>

\* faulty variant: the save sits after the loop instead of in a finally clause
InterruptWithoutSave ==
  /\ pc = "review"
  /\ pc' = "translate"
  /\ tpos' = 1
  /\ hist' = [hist EXCEPT !.exit = "interrupt", !.last_key = "INTR",
                          !.t_start = unknown_words]
  /\ UNCHANGED <<files, doc, wordlist, known_words, unknown_words, otherbook_words,
                 newlist, cnt, nruns>>
  /\ UNCHANGED <<ocrVars, wordVars>>

\* KeyboardInterrupt inside the try: except, then finally
Interrupt ==
  /\ pc = "review"
  /\ files' = SaveProgress(files, doc, known_words, unknown_words)
  /\ pc' = "translate"
  /\ tpos' = 1
  /\ hist' = [hist EXCEPT !.exit = "interrupt", !.last_key = "INTR",
                          !.t_start = unknown_words]
  /\ UNCHANGED <<doc, wordlist, known_words, unknown_words, otherbook_words,
                 newlist, cnt, nruns>>
  /\ UNCHANGED <<ocrVars, wordVars>>

(***************************************************************************)
(* translate_words                                                         *)
(***************************************************************************)
TranslateFailed == "<exception>"

\* the entry at tpos has been handled: next entry, or the save after the loop
AfterEntry(unknown, call) ==
  /\ unknown_words' = unknown
  /\ IF tpos < Len(unknown)
     THEN /\ tpos' = tpos + 1
          /\ pc' = "translate"
          /\ hist' = [hist EXCEPT !.calls = @ \o call]
          /\ UNCHANGED files
     ELSE /\ tpos' = tpos
          /\ pc' = "exit"
          /\ files' = save_unknown_words(files, UNKNOWN_WORDS_FILE(doc), unknown)
          /\ hist' = [hist EXCEPT !.calls = @ \o call, !.saves = @ + 1]
  /\ UNCHANGED <<doc, wordlist, known_words, otherbook_words, newlist, cnt, nruns>>
  /\ UNCHANGED <<ocrVars, wordVars>>

\* nothing to iterate over: only the save
TranslateNothing ==
  /\ pc = "translate"
  /\ unknown_words = <<>>
  /\ AfterEntry(unknown_words, <<>>)

\* "if not details['translation']" is false
TranslateSkip ==
  /\ pc = "translate"
  /\ unknown_words # <<>>
  /\ unknown_words[tpos].translation # ""
  /\ AfterEntry(unknown_words, <<>>)

TranslateOk(result) ==
  /\ pc = "translate"
  /\ unknown_words # <<>>
  /\ unknown_words[tpos].translation = ""
  /\ AfterEntry([unknown_words EXCEPT ![tpos].translation = result],
                <<[word |-> unknown_words[tpos].word, outcome |-> result]>>)

\* faulty variant: the try encloses the loop, so the first failure ends the batch
TranslateErrorEndsBatch ==
  /\ pc = "translate"
  /\ unknown_words # <<>>
  /\ unknown_words[tpos].translation = ""
  /\ pc' = "exit"
  /\ files' = save_unknown_words(files, UNKNOWN_WORDS_FILE(doc), unknown_words)
  /\ hist' = [hist EXCEPT !.calls = Append(@, [word |-> unknown_words[tpos].word,
                                                outcome |-> TranslateFailed]),
                          !.saves = @ + 1]
  /\ UNCHANGED <<doc, wordlist, known_words, unknown_words, otherbook_words,
                 newlist, cnt, tpos, nruns>>
  /\ UNCHANGED <<ocrVars, wordVars>>

\* the translation call raises: "except Exception" prints and goes on
TranslateError ==
  /\ pc = "translate"
  /\ unknown_words # <<>>
  /\ unknown_words[tpos].translation = ""
  /\ AfterEntry(unknown_words,
                <<[word |-> unknown_words[tpos].word, outcome |-> TranslateFailed]>>)

\* KeyboardInterrupt is no Exception: the program ends without the save
TranslateAbort ==
  /\ pc = "translate"
  /\ pc' = "exit"
  /\ UNCHANGED <<files, doc, wordlist, known_words, unknown_words,
                 otherbook_words, newlist, cnt, tpos, hist, nruns>>
  /\ UNCHANGED <<ocrVars, wordVars>>

\* the process ends: its memory is gone, the files stay
Exit ==
  /\ pc = "exit"
  /\ pc' = "idle"
  /\ doc' = "none"
  /\ wordlist' = <<>>
  /\ known_words' = {}
  /\ unknown_words' = <<>>
  /\ otherbook_words' = {}
  /\ newlist' = <<>>
  /\ cnt' = 0
  /\ tpos' = 0
  /\ hist' = NoHist
  /\ UNCHANGED <<files, nruns>>
  /\ UNCHANGED <<ocrVars, wordVars>>

(***************************************************************************)
(* pdf2words.py: text cache and OCR                                        *)
(***************************************************************************)
\* what OCR reads on page p of the book
PageText(p) == <<p>>

\* "cnt not in PAGE_RANGE" for PAGE_RANGE = range(lo, hi)
InRange(n, r) == r.lo <= n /\ n < r.hi

\* the skip flag of extract_text_with_pytesseract for page number n
SkipPage(n, ranges) ==
  /\ ranges # <<>>
  /\ \E i \in 1..Len(ranges) : ~InRange(n, ranges[i])

\* read_cached_text: the content, or None
read_cached_text(cache_file) ==
  IF cache_file.exists THEN [none |-> FALSE, text |-> cache_file.content]
  ELSE [none |-> TRUE, text |-> <<>>]

\* "if cached_text:" -- None and the empty string are both false
Truthy(cached_text) == ~cached_text.none /\ cached_text.text # <<>>

save_text_to_cache(t) == File(t)

NoRun ==
  [program |-> "none", status |-> "none", stages |-> {}, ocr_ran |-> FALSE,
   processed |-> {}, cache_writes |-> 0, returned |-> FALSE, result |-> <<>>,
   pdf_at_start |-> FALSE, cache_at_start |-> Missing, package_at_start |-> Missing,
   argv |-> <<>>]

\* main -> extract_text: a usable cache is returned as it is
MainCached ==
  /\ opc = "idle"
  /\ Truthy(read_cached_text(cache))
  /\ opc' = "extract_unique_words"
  /\ run' = [NoRun EXCEPT !.program = "extractor", !.status = "running",
                          !.pdf_at_start = pdf.exists, !.cache_at_start = cache,
                          !.returned = TRUE,
                          !.result = read_cached_text(cache).text,
                          !.stages = {"extract_text"}]
  /\ UNCHANGED <<PAGES_RANGES, pdf, cache, page_cnt, text, csv_arg, package>>
  /\ UNCHANGED <<sessVars, wordVars>>

\* no usable cache and no document: convert_from_path raises, nothing
\* catches it, the interpreter prints the traceback and exits with status 1
MainNoPdf ==
  /\ opc = "idle"
  /\ ~Truthy(read_cached_text(cache))
  /\ ~pdf.exists
  /\ opc' = "exit"
  /\ run' = [NoRun EXCEPT !.program = "extractor", !.status = "1",
                          !.pdf_at_start = pdf.exists, !.cache_at_start = cache,
                          !.ocr_ran = TRUE,
                          !.stages = {"extract_text"}]
  /\ UNCHANGED <<PAGES_RANGES, pdf, cache, page_cnt, text, csv_arg, package>>
  /\ UNCHANGED <<sessVars, wordVars>>

\* no usable cache: extract_text_with_pytesseract starts on the pages
MainOcr ==
  /\ opc = "idle"
  /\ ~Truthy(read_cached_text(cache))
  /\ pdf.exists
  /\ opc' = "ocr"
  /\ page_cnt' = 0
  /\ text' = <<>>
  /\ run' = [NoRun EXCEPT !.program = "extractor", !.status = "running",
                          !.pdf_at_start = pdf.exists, !.cache_at_start = cache,
                          !.ocr_ran = TRUE,
                          !.stages = {"extract_text"}]
  /\ UNCHANGED <<PAGES_RANGES, pdf, cache, csv_arg, package>>
  /\ UNCHANGED <<sessVars, wordVars>>

\* one iteration of "for img in images"; after the last page the text is
\* written to the cache and returned to main
OcrPage ==
  /\ opc = "ocr"
  /\ page_cnt' = page_cnt + 1
  /\ LET skip == SkipPage(page_cnt', PAGES_RANGES)
         t == IF skip THEN text ELSE text \o PageText(page_cnt')
         done == IF skip THEN run.processed ELSE run.processed \cup {page_cnt'}
     IN /\ text' = t
        /\ IF page_cnt' < pdf.pages
           THEN /\ opc' = "ocr"
                /\ run' = [run EXCEPT !.processed = done]
                /\ UNCHANGED cache
           ELSE /\ opc' = "extract_unique_words"
                /\ cache' = save_text_to_cache(t)
                /\ run' = [run EXCEPT !.processed = done,
                                      !.cache_writes = @ + 1,
                                      !.returned = TRUE, !.result = t]
  /\ UNCHANGED <<PAGES_RANGES, pdf, csv_arg, package>>
  /\ UNCHANGED <<sessVars, wordVars>>

\* the later stages of main, each entered after the one before returned
LaterStage(from, to) ==
  /\ opc = from
  /\ opc' = to
  /\ run' = [run EXCEPT !.stages = @ \cup {from},
                        !.status = IF to = "exit" THEN "0" ELSE @]
  /\ UNCHANGED <<PAGES_RANGES, pdf, cache, page_cnt, text, csv_arg, package>>
  /\ UNCHANGED <<sessVars, wordVars>>

WordExtraction == LaterStage("extract_unique_words", "classify_words")
Classification == LaterStage("classify_words", "translate_words")
Translation == LaterStage("translate_words", "exit")

(***************************************************************************)
(* create_anki.py                                                          *)
(***************************************************************************)
\* faulty variant: the existence test is missing
InputMissingUnchecked(csv_file) == FALSE

\* "if not os.path.exists(csv_file)"
InputMissing(csv_file) == ~csv_file.exists

\* the notes of the deck: rows with fewer than 3 fields are skipped
RECURSIVE Notes(_)
Notes(rows) ==
  IF rows = <<>> THEN <<>>
  ELSE LET row == Head(rows)
       IN (IF Len(row) < 3 THEN <<>> ELSE <<SubSeq(row, 1, 3)>>) \o Notes(Tail(rows))

ExporterStart(argv, f, status) ==
  /\ opc = "idle"
  /\ opc' = "exit"
  /\ csv_arg' = f
  /\ run' = [NoRun EXCEPT !.program = "exporter", !.status = status,
                          !.argv = argv, !.package_at_start = package]
  /\ UNCHANGED <<PAGES_RANGES, pdf, cache, page_cnt, text>>
  /\ UNCHANGED <<sessVars, wordVars>>

\* len(sys.argv) < 2: usage, sys.exit(1)
ExporterUsage(argv) ==
  /\ Len(argv) < 2
  /\ ExporterStart(argv, Missing, "1")
  /\ UNCHANGED package

\* the named file does not exist: error message, sys.exit(1)
ExporterNoFile(argv, f) ==
  /\ Len(argv) >= 2
  /\ InputMissing(f)
  /\ ExporterStart(argv, f, "1")
  /\ UNCHANGED package

\* create_anki_deck_from_csv
ExporterDeck(argv, f) ==
  /\ Len(argv) >= 2
  /\ ~InputMissing(f)
  /\ ExporterStart(argv, f, "0")
  /\ package' = File(Notes(f.content))

\* the process is over
ProgramExit ==
  /\ opc = "exit"
  /\ opc' = "idle"
  /\ run' = NoRun
  /\ page_cnt' = 0
  /\ text' = <<>>
  /\ csv_arg' = Missing
  /\ UNCHANGED <<PAGES_RANGES, pdf, cache, package>>
  /\ UNCHANGED <<sessVars, wordVars>>

\* between runs the operator may delete the cache to force a new OCR run,
\* and the document may be removed
DeleteCache ==
  /\ opc = "idle"
  /\ cache.exists
  /\ cache' = Missing
  /\ UNCHANGED <<PAGES_RANGES, pdf, opc, page_cnt, text, run, csv_arg, package>>
  /\ UNCHANGED <<sessVars, wordVars>>

RemovePdf ==
  /\ opc = "idle"
  /\ pdf.exists
  /\ pdf' = [exists |-> FALSE, pages |-> 0]
  /\ UNCHANGED <<PAGES_RANGES, cache, opc, page_cnt, text, run, csv_arg, package>>
  /\ UNCHANGED <<sessVars, wordVars>>

\* range(lo, hi) with lo <= hi; range(n, n) is empty
PageRanges ==
  {r \in [lo : 1..(MaxPages + 1), hi : 1..(MaxPages + 1)] : r.lo <= r.hi}
RangeLists == UNION {[1..k -> PageRanges] : k \in 0..MaxRanges}

ArgLists == {<<"create_anki.py">>, <<"create_anki.py", "book.csv">>}
CsvRowChoices == {<<"word", "tr", "sentence">>, <<"word", "tr">>}
CsvFiles == {Missing} \cup {File(rows) : rows \in UNION {[1..k -> CsvRowChoices] : k \in 0..MaxRows}}

OcrInit ==
  /\ PAGES_RANGES \in RangeLists
  /\ pdf \in {[exists |-> FALSE, pages |-> 0]}
             \cup {[exists |-> TRUE, pages |-> n] : n \in 1..MaxPages}
  /\ cache = Missing
  /\ opc = "idle"
  /\ page_cnt = 0
  /\ text = <<>>
  /\ run = NoRun
  /\ csv_arg = Missing
  /\ package = Missing

(***************************************************************************)
(* pdf2words.py: extract_unique_words                                      *)
(* A string is a sequence of one-character strings.                        *)
(***************************************************************************)
LowerLetters == <<"a", "b", "c", "d", "e", "f", "g", "h", "i", "j", "k", "l", "m", "n", "o", "p", "q", "r", "s", "t", "u", "v", "w", "x", "y", "z">>
UpperLetters == <<"A", "B", "C", "D", "E", "F", "G", "H", "I", "J", "K", "L", "M", "N", "O", "P", "Q", "R", "S", "T", "U", "V", "W", "X", "Y", "Z">>
Digits == {"0", "1", "2", "3", "4", "5", "6", "7", "8", "9"}
Whitespace == {" ", "\n", "\r", "\t"}
Terminators == {".", "!", "?"}

IsLower(c) == c \in Range(LowerLetters)
IsUpper(c) == c \in Range(UpperLetters)
IsLetter(c) == IsLower(c) \/ IsUpper(c)
IsDigit(c) == c \in Digits
\* \w
IsWordChar(c) == IsLetter(c) \/ IsDigit(c) \/ c = "_"

LowerChar(c) ==
  IF IsUpper(c)
  THEN LowerLetters[CHOOSE i \in 1..Len(UpperLetters) : UpperLetters[i] = c]
  ELSE c

\* str.lower()
lower(w) == [i \in 1..Len(w) |-> LowerChar(w[i])]

\* re.split(r"[...]", s): the pieces between separators, empty ones included
RECURSIVE SplitAt(_, _, _)
SplitAt(s, seps, piece) ==
  IF s = <<>> THEN <<piece>>
  ELSE IF Head(s) \in seps
       THEN <<piece>> \o SplitAt(Tail(s), seps, <<>>)
       ELSE SplitAt(Tail(s), seps, Append(piece, Head(s)))

\* re.sub(r'\s+', ' ', s)
RECURSIVE CollapseSpace(_)
CollapseSpace(s) ==
  IF s = <<>> THEN <<>>
  ELSE IF Head(s) \in Whitespace
       THEN IF Len(s) > 1 /\ s[2] \in Whitespace
            THEN CollapseSpace(Tail(s))
            ELSE <<" ">> \o CollapseSpace(Tail(s))
       ELSE <<Head(s)>> \o CollapseSpace(Tail(s))

\* str.strip()
RECURSIVE LStrip(_)
LStrip(s) == IF s # <<>> /\ Head(s) \in Whitespace THEN LStrip(Tail(s)) ELSE s
RECURSIVE RStrip(_)
RStrip(s) ==
  IF s # <<>> /\ s[Len(s)] \in Whitespace THEN RStrip(SubSeq(s, 1, Len(s) - 1)) ELSE s
Strip(s) == RStrip(LStrip(s))

ReplaceChar(s, from, to) == [i \in 1..Len(s) |-> IF s[i] = from THEN to ELSE s[i]]

clean_sentence(sentence) ==
  Strip(ReplaceChar(ReplaceChar(CollapseSpace(sentence), "\n", " "), "\r", " "))

\* str.split(): the maximal runs of non-whitespace
SplitWords(s) == SelectSeq(SplitAt(s, Whitespace, <<>>), LAMBDA piece : piece # <<>>)

\* re.sub(r"[^\w\s]", "", word)
clean_word(word) == SelectSeq(word, LAMBDA c : IsWordChar(c) \/ c \in Whitespace)

number_words ==
  {<<"z", "e", "r", "o">>,
   <<"o", "n", "e">>,
   <<"t", "w", "o">>,
   <<"t", "h", "r", "e", "e">>,
   <<"f", "o", "u", "r">>,
   <<"f", "i", "v", "e">>,
   <<"s", "i", "x">>,
   <<"s", "e", "v", "e", "n">>,
   <<"e", "i", "g", "h", "t">>,
   <<"n", "i", "n", "e">>,
   <<"t", "e", "n">>,
   <<"e", "l", "e", "v", "e", "n">>,
   <<"t", "w", "e", "l", "v", "e">>,
   <<"t", "h", "i", "r", "t", "e", "e", "n">>,
   <<"f", "o", "u", "r", "t", "e", "e", "n">>,
   <<"f", "i", "f", "t", "e", "e", "n">>,
   <<"s", "i", "x", "t", "e", "e", "n">>,
   <<"s", "e", "v", "e", "n", "t", "e", "e", "n">>,
   <<"e", "i", "g", "h", "t", "e", "e", "n">>,
   <<"n", "i", "n", "e", "t", "e", "e", "n">>,
   <<"t", "w", "e", "n", "t", "y">>}

\* re.search(r"(.)\1{3,}", word)
HasRepeat4(w) ==
  \E i \in 1..(Len(w) - 3) : w[i] = w[i + 1] /\ w[i] = w[i + 2] /\ w[i] = w[i + 3]

\* str.istitle()
RECURSIVE TitleScan(_, _, _)
TitleScan(w, previous_is_cased, cased) ==
  IF w = <<>> THEN cased
  ELSE IF IsUpper(Head(w))
       THEN IF previous_is_cased THEN FALSE ELSE TitleScan(Tail(w), TRUE, TRUE)
       ELSE IF IsLower(Head(w))
            THEN IF ~previous_is_cased THEN FALSE ELSE TitleScan(Tail(w), TRUE, TRUE)
            ELSE TitleScan(Tail(w), FALSE, cased)
istitle(w) == TitleScan(w, FALSE, FALSE)

is_valid_word(word, dictionary) ==
  /\ Len(word) >= 4
  /\ ~IsDigit(word[1])
  /\ ~IsDigit(word[Len(word)])
  /\ word \notin number_words
  /\ ~HasRepeat4(word)
  /\ \A i \in 1..Len(word) : IsLetter(word[i])
  /\ ~istitle(word)
  /\ word \in dictionary

\* the pairs visited by "for sentence in sentences: for word in cleaned_sentence.split()"
RECURSIVE Visits(_)
Visits(sents) ==
  IF sents = <<>> THEN <<>>
  ELSE LET cleaned_sentence == clean_sentence(Head(sents))
           ws == SplitWords(cleaned_sentence)
       IN [i \in 1..Len(ws) |-> [sentence |-> cleaned_sentence, token |-> ws[i]]]
          \o Visits(Tail(sents))

\* extract_unique_words is called: split the text into sentences
StartExtract ==
  /\ ti = 0
  /\ sentences' = SplitAt(book_text, Terminators, <<>>)
  /\ tokens' = Visits(sentences')
  /\ ti' = 1
  /\ unique_words' = <<>>
  /\ firsts' = <<>>
  /\ UNCHANGED <<book_text, english_words>>
  /\ UNCHANGED <<sessVars, ocrVars>>

\* the first qualifying token of each lowercase word, with its sentence
Remember(word_cleaned, sentence) ==
  IF lower(word_cleaned) \in Keys(firsts) THEN firsts
  ELSE Append(firsts, [word |-> lower(word_cleaned), sentence |-> sentence])

\* one iteration of the inner loop: the token does not qualify
TokenRejected ==
  /\ ti \in 1..Len(tokens)
  /\ ~is_valid_word(clean_word(tokens[ti].token), english_words)
  /\ ti' = ti + 1
  /\ UNCHANGED <<book_text, english_words, sentences, tokens, unique_words, firsts>>
  /\ UNCHANGED <<sessVars, ocrVars>>

\* "if word_cleaned not in unique_words" holds: store under the lowercase key
TokenStored ==
  /\ ti \in 1..Len(tokens)
  /\ LET word_cleaned == clean_word(tokens[ti].token)
     IN /\ is_valid_word(word_cleaned, english_words)
        /\ word_cleaned \notin Keys(unique_words)
        /\ unique_words' = DictSet(unique_words,
                                   [word |-> lower(word_cleaned),
                                    sentence |-> tokens[ti].sentence])
        /\ firsts' = Remember(word_cleaned, tokens[ti].sentence)
  /\ ti' = ti + 1
  /\ UNCHANGED <<book_text, english_words, sentences, tokens>>
  /\ UNCHANGED <<sessVars, ocrVars>>

\* the cleaned token is already a key: nothing is stored
TokenSeen ==
  /\ ti \in 1..Len(tokens)
  /\ LET word_cleaned == clean_word(tokens[ti].token)
     IN /\ is_valid_word(word_cleaned, english_words)
        /\ word_cleaned \in Keys(unique_words)
        /\ firsts' = Remember(word_cleaned, tokens[ti].sentence)
  /\ ti' = ti + 1
  /\ UNCHANGED <<book_text, english_words, sentences, tokens, unique_words>>
  /\ UNCHANGED <<sessVars, ocrVars>>

\* the texts: up to MaxTokens tokens, each followed by a space or by the
\* end of its sentence
Vocabulary ==
  {<<"a", "b", "l", "e">>, <<"A", "B", "L", "E">>, <<"A", "b", "l", "e">>, <<"a", "b", "l", "e", ",">>, <<"i", "s">>}
Separators == {<<" ">>, <<".", " ">>}
TextItems == {token \o sep : token \in Vocabulary, sep \in Separators}

RECURSIVE Concat(_)
Concat(ss) == IF ss = <<>> THEN <<>> ELSE Head(ss) \o Concat(Tail(ss))

Texts == {Concat(items) : items \in UNION {[1..k -> TextItems] : k \in 0..MaxTokens}}
Dictionaries == SUBSET {<<"a", "b", "l", "e">>, <<"A", "B", "L", "E">>, <<"A", "b", "l", "e">>}

WordsInit ==
  /\ book_text \in Texts
  /\ english_words \in Dictionaries
  /\ sentences = <<>>
  /\ tokens = <<>>
  /\ ti = 0
  /\ unique_words = <<>>
  /\ firsts = <<>>

(***************************************************************************)
(* Specification of the sessions                                           *)
(***************************************************************************)
\* the other two programs' state, at rest
OcrAtRest ==
  /\ PAGES_RANGES = <<>>
  /\ pdf = [exists |-> FALSE, pages |-> 0]
  /\ cache = Missing
  /\ opc = "idle"
  /\ page_cnt = 0
  /\ text = <<>>
  /\ run = NoRun
  /\ csv_arg = Missing
  /\ package = Missing

WordsAtRest ==
  /\ book_text = <<>>
  /\ english_words = {}
  /\ sentences = <<>>
  /\ tokens = <<>>
  /\ ti = 0
  /\ unique_words = <<>>
  /\ firsts = <<>>

Init == SessInit /\ OcrAtRest /\ WordsAtRest

Next ==
  \/ \E d \in Docs : \E wl \in WordLists(d) : StartSession(d, wl)
  \/ PromptInterrupt
  \/ PressEnter
  \/ KeyLeft
  \/ KeyRight
  \/ KeyOther
  \/ Interrupt
  \/ TranslateNothing
  \/ TranslateSkip
  \/ \E result \in Translations : TranslateOk(result)
  \/ TranslateError
  \/ TranslateAbort
  \/ Exit

Spec == Init /\ [][Next]_vars

InitOCR == OcrInit /\ SessInit /\ WordsAtRest

NextOCR ==
  \/ MainCached
  \/ MainNoPdf
  \/ MainOcr
  \/ OcrPage
  \/ WordExtraction
  \/ Classification
  \/ Translation
  \/ \E argv \in ArgLists : ExporterUsage(argv)
  \/ \E argv \in ArgLists, f \in CsvFiles : ExporterNoFile(argv, f)
  \/ \E argv \in ArgLists, f \in CsvFiles : ExporterDeck(argv, f)
  \/ ProgramExit
  \/ DeleteCache
  \/ RemovePdf

SpecOCR == InitOCR /\ [][NextOCR]_vars

InitWords == WordsInit /\ SessInit /\ OcrAtRest

NextWords ==
  \/ StartExtract
  \/ TokenRejected
  \/ TokenStored
  \/ TokenSeen

SpecWords == InitWords /\ [][NextWords]_vars

(***************************************************************************)
(* Properties of the classification sessions (Spec)                        *)
(***************************************************************************)
\* the words of a file of lines, the keys of a CSV file
FileWords(f) == Range(files[f].content)
CsvKeys(f) == {files[f].content[i][1] : i \in 1..Len(files[f].content)}

\* the decisions of the running session
Answered(key) ==
  {hist.shown[i] : i \in {j \in 1..Len(hist.answers) : hist.answers[j] = key}}

\* the words that were, at session start, in the sidecar of another book
OtherSidecarWords ==
  UNION {r.words : r \in {x \in hist.sidecars :
                            x.name # SidecarName(UNKNOWN_WORDS_FILE(doc))}}

ClassifyEnded == pc \in {"translate", "exit"} /\ hist.exit \in {"complete", "interrupt"}

\* C1: whenever the review loop has been left, by completion or by
\* KeyboardInterrupt, the known-words file, the CSV and the sidecar exist and
\* hold the loaded known words plus every LEFT word, resp. the loaded unknown
\* keys plus every RIGHT word; and the loop is left only into that save.
C1_SavedOnEveryExit ==
  /\ [](pc = "translate" =>
          /\ hist.exit \in {"complete", "interrupt"}
          /\ files[KNOWN_WORDS_FILE].exists
          /\ FileWords(KNOWN_WORDS_FILE) = hist.loaded_known \cup Answered("LEFT")
          /\ files[UNKNOWN_WORDS_FILE(doc)].exists
          /\ CsvKeys(UNKNOWN_WORDS_FILE(doc))
               = Keys(hist.loaded_unknown) \cup Answered("RIGHT")
          /\ files[SidecarName(UNKNOWN_WORDS_FILE(doc))].exists
          /\ FileWords(SidecarName(UNKNOWN_WORDS_FILE(doc)))
               = Keys(hist.loaded_unknown) \cup Answered("RIGHT"))
  /\ [][pc = "review" => pc' \in {"review", "translate"}]_vars

C1_Witness ==
  /\ pc = "translate"
  /\ hist.exit = "interrupt"
  /\ Len(hist.answers) = 1
  /\ Len(newlist) = 2

\* C2: no word is both in the known set and a key of the unknown store of
\* the book, in memory during a session and in the files at any time.
C2_KnownUnknownDisjoint ==
  /\ known_words \cap Keys(unknown_words) = {}
  /\ \A d \in Docs : FileWords(KNOWN_WORDS_FILE) \cap CsvKeys(UNKNOWN_WORDS_FILE(d)) = {}

C2_Witness ==
  /\ pc = "translate"
  /\ Answered("LEFT") # {}
  /\ unknown_words # <<>>
  /\ CsvKeys(UNKNOWN_WORDS_FILE(doc)) # {}
  /\ FileWords(KNOWN_WORDS_FILE) # {}

\* C3: after classification ended, the saved known words and the saved
\* unknown keys of the book contain no word that another book's sidecar
\* held at session start.
C3_NoWordOfOtherBooks ==
  ClassifyEnded =>
    (FileWords(KNOWN_WORDS_FILE) \cup CsvKeys(UNKNOWN_WORDS_FILE(doc)))
      \cap OtherSidecarWords = {}

C3_Witness ==
  /\ ClassifyEnded
  /\ hist.answers # <<>>
  /\ \E i \in 1..Len(wordlist) : wordlist[i].word \in OtherSidecarWords
  /\ CsvKeys(UNKNOWN_WORDS_FILE(doc)) # {}

\* the filtered mapping as the claim describes it
ClaimedNewlist ==
  SelectSeq(wordlist, LAMBDA e : /\ e.word \notin hist.loaded_known
                                 /\ e.word \notin Keys(hist.loaded_unknown)
                                 /\ e.word \notin OtherSidecarWords)

IsPrefix(s, t) == Len(s) <= Len(t) /\ \A i \in 1..Len(s) : s[i] = t[i]

\* C9: the words presented are the words of the filtered mapping, each once,
\* in insertion order; LEFT adds the presented word to the known set only,
\* RIGHT appends it to the unknown store with its sentence and an empty
\* translation only, any other key changes nothing and keeps the word on
\* screen; decided words stay decided and loaded entries are kept.
C9_ReviewLoop ==
  /\ [](pc = "review" =>
          /\ newlist = ClaimedNewlist
          /\ cnt \in 1..Len(newlist)
          /\ hist.shown = [i \in 1..cnt |-> newlist[i].word]
          /\ Len(hist.answers) = cnt - 1
          /\ IsPrefix(hist.loaded_unknown, unknown_words))
  /\ [](pc = "translate" /\ hist.exit = "complete" =>
          /\ newlist = ClaimedNewlist
          /\ hist.shown = [i \in 1..Len(newlist) |-> newlist[i].word]
          /\ Len(hist.answers) = Len(newlist)
          /\ IsPrefix(hist.loaded_unknown, hist.t_start))
  /\ [][pc = "review" =>
          LET word == newlist[cnt].word
          IN /\ hist'.answers = Append(hist.answers, "LEFT") =>
                  /\ known_words' = known_words \cup {word}
                  /\ unknown_words' = unknown_words
             /\ hist'.answers = Append(hist.answers, "RIGHT") =>
                  /\ unknown_words' = Append(unknown_words,
                                             [word |-> word, translation |-> "",
                                              sentence |-> newlist[cnt].sentence])
                  /\ known_words' = known_words
             /\ hist'.answers = hist.answers =>
                  /\ known_words' = known_words
                  /\ unknown_words' = unknown_words
                  /\ cnt' = cnt
             /\ hist'.answers # hist.answers =>
                  /\ word \notin known_words
                  /\ word \notin Keys(unknown_words)
                  /\ pc' = "review" => cnt' = cnt + 1]_vars

C9_Witness ==
  /\ pc = "translate"
  /\ hist.exit = "complete"
  /\ hist.answers = <<"RIGHT">>
  /\ Len(newlist) < Len(wordlist)
  /\ hist.loaded_unknown # <<>>
  /\ hist.loaded_unknown[1].translation # ""

\* C10: the cross-document index holds the words of every sidecar except
\* the one of the book of the session.
C10_IndexExcludesOwnSidecar ==
  pc \in {"prompt", "review"} => otherbook_words = OtherSidecarWords

(***************************************************************************)
(* Properties of translate_words (Spec)                                    *)
(***************************************************************************)
CallsFor(w) == {j \in 1..Len(hist.calls) : hist.calls[j].word = w}

\* C6: when translate_words has returned, every entry that had no
\* translation got exactly one call and holds its result, or stays empty if
\* the call failed; the other entries, all sentences and the keys are as
\* before; and the store was saved once, after the last entry, not before.
C6_TranslateBatch ==
  /\ hist.saves <= 1
  /\ pc = "translate" =>
       /\ hist.saves = 0
       /\ files[UNKNOWN_WORDS_FILE(doc)] = File(CsvRows(hist.t_start))
       /\ \A i \in 1..Len(unknown_words) :
            i < tpos /\ hist.t_start[i].translation = ""
              => Cardinality(CallsFor(unknown_words[i].word)) = 1
  /\ pc = "exit" /\ hist.saves = 1 =>
       /\ Len(unknown_words) = Len(hist.t_start)
       /\ \A i \in 1..Len(unknown_words) :
            LET before == hist.t_start[i]
                after == unknown_words[i]
            IN /\ after.word = before.word
               /\ after.sentence = before.sentence
               /\ before.translation # "" =>
                    /\ after.translation = before.translation
                    /\ CallsFor(after.word) = {}
               /\ before.translation = "" =>
                    /\ Cardinality(CallsFor(after.word)) = 1
                    /\ \A j \in CallsFor(after.word) :
                         after.translation =
                           IF hist.calls[j].outcome = TranslateFailed THEN ""
                           ELSE hist.calls[j].outcome
       /\ files[UNKNOWN_WORDS_FILE(doc)] = File(CsvRows(unknown_words))
       /\ FileWords(SidecarName(UNKNOWN_WORDS_FILE(doc))) = Keys(unknown_words)

C6_Witness ==
  /\ pc = "exit"
  /\ hist.saves = 1
  /\ Len(hist.calls) = 2
  /\ hist.calls[1].outcome = TranslateFailed
  /\ hist.calls[2].outcome # TranslateFailed

(***************************************************************************)
(* Properties of extract_text, main and the exporter (SpecOCR)             *)
(***************************************************************************)
ExtractorRan == run.program = "extractor"

\* C4 as stated: a missing document makes the extractor end with a
\* non-zero status before any later stage; a missing CSV file makes the
\* exporter end with a non-zero status without writing a package.
C4_MissingInputFatal ==
  /\ ExtractorRan /\ ~run.pdf_at_start =>
       /\ opc = "exit"
       /\ run.status = "1"
       /\ run.stages \subseteq {"extract_text"}
  /\ run.program = "exporter" /\ ~csv_arg.exists =>
       /\ opc = "exit"
       /\ run.status = "1"
       /\ package = run.package_at_start

\* C4 amended: the same, for the extractor only when the cache file is
\* absent or empty at startup.
C4_MissingInputFatalWithoutCache ==
  /\ (/\ ExtractorRan
      /\ ~run.pdf_at_start
      /\ (~run.cache_at_start.exists \/ run.cache_at_start.content = <<>>)) =>
       /\ opc = "exit"
       /\ run.status = "1"
       /\ run.stages \subseteq {"extract_text"}
       /\ ~run.returned
  /\ run.program = "exporter" /\ ~csv_arg.exists =>
       /\ opc = "exit"
       /\ run.status = "1"
       /\ package = run.package_at_start

C4_Witness ==
  /\ ExtractorRan
  /\ ~run.pdf_at_start
  /\ run.cache_at_start.exists
  /\ run.status = "1"

\* C5: if the cache file existed when extract_text was called, OCR was not
\* run, the cache was not written and the text returned is its content; if
\* it did not exist, OCR ran and the returned text is in the cache.
C5_CacheUsedIffPresent ==
  ExtractorRan =>
    /\ run.cache_at_start.exists =>
         /\ ~run.ocr_ran
         /\ run.cache_writes = 0
         /\ run.returned
         /\ run.result = run.cache_at_start.content
    /\ ~run.cache_at_start.exists =>
         /\ run.ocr_ran
         /\ run.returned => run.cache_writes = 1 /\ cache = File(run.result)

\* the pages that lie in at least one range (all pages without ranges)
PagesInSomeRange ==
  {p \in 1..pdf.pages :
     PAGES_RANGES = <<>> \/ \E i \in 1..Len(PAGES_RANGES) : InRange(p, PAGES_RANGES[i])}

RECURSIVE TextOf(_)
TextOf(pages) ==
  IF pages = {} THEN <<>> ELSE PageText(Min(pages)) \o TextOf(pages \ {Min(pages)})

\* C7: when OCR has gone through the document, the pages processed are
\* those lying in at least one range and the text is theirs, in page order.
C7_PagesInAnyRange ==
  ExtractorRan /\ run.ocr_ran /\ run.returned =>
    /\ run.processed = PagesInSomeRange
    /\ run.result = TextOf(PagesInSomeRange)

(***************************************************************************)
(* Properties of extract_unique_words (SpecWords)                          *)
(***************************************************************************)
\* C8: the sentence stored under a lowercase word is the sentence of the
\* first qualifying token that lowercases to it.
C8_FirstOccurrenceWins ==
  /\ Keys(unique_words) = Keys(firsts)
  /\ \A i \in 1..Len(unique_words) :
       unique_words[i].sentence = Lookup(firsts, unique_words[i].word).sentence

====
